---- MODULE Spec2Model ----
\* Startup of the Exa MCP server (src/src/index.ts): command-line parsing,
\* listing mode, the credential check, tool registration and the choice of
\* transport, as one state machine over the script's statements.
EXTENDS Integers, Sequences, FiniteSets, TLC

\* ---------------------------------------------------------------- bounds
MaxTools == 2       \* entries in the tool registry
MaxLen == 3         \* characters in the value of --tools
MaxErrors == 1      \* transport errors reported while serving

\* ---------------------------------------------------------------- inputs
\* A string is a sequence of one-character strings.
Chars == {"a", "b", ",", " "}
ToolIds == {<<"a">>, <<"b">>, <<"a", "b">>}
ToolNames == {"n1", "n2"}
Unset == "undefined"
KeyValues == {Unset, "", "k"}

RECURSIVE StringsUpTo(_)
StringsUpTo(n) ==
  IF n = 0 THEN {<<>>}
  ELSE LET S == StringsUpTo(n - 1)
       IN S \cup {Append(s, c) : s \in {t \in S : Len(t) = n - 1}, c \in Chars}

ToolsStrings == StringsUpTo(MaxLen)

Range(s) == {s[i] : i \in 1..Len(s)}

Descriptors == [id : ToolIds, name : ToolNames, enabled : BOOLEAN]

\* The registry is an object keyed by tool id: its keys are distinct, and
\* Object.entries enumerates it in one fixed order.
Registries ==
  {r \in UNION {[1..n -> Descriptors] : n \in 0..MaxTools} :
     \A i, j \in 1..Len(r) : i # j => r[i].id # r[j].id}

VARIABLES
  toolRegistry,      \* the imported registry, as Object.entries lists it
  EXA_API_KEY,       \* process.env.EXA_API_KEY once dotenv has loaded
  toolsString,       \* argv.tools
  listTools,         \* argv['list-tools']
  specifiedTools,    \* the Set built from toolsString
  API_KEY,           \* the constant API_KEY
  pc,                \* the statement the script is at
  stdout,            \* entries printed by listing mode
  logged,            \* messages handed to log(), in order
  serverTools,       \* names registered with the McpServer, in order
  registeredTools,   \* the value setupTools returned
  transport,         \* run()'s local transport
  usingHttp,         \* run()'s local usingHttp
  onerror,           \* the transport that carries the error observer
  constructed,       \* the transports constructed so far, in order
  connected,         \* the transports handed to server.connect, in order
  error,             \* the exception in flight
  raised,            \* every exception thrown so far
  keyChecked,        \* the credential check ran
  errCount,          \* transport errors reported so far
  exitCode           \* the status the process ended with: <<>> while it runs

vars == <<toolRegistry, EXA_API_KEY, toolsString, listTools, specifiedTools, API_KEY, pc,
          stdout, logged, serverTools, registeredTools, transport, usingHttp,
          onerror, constructed, connected, error, raised, keyChecked,
          errCount, exitCode>>

NoTransport == "none"
NoError == "none"
NoExit == <<>>

Init ==
  /\ toolRegistry \in Registries
  /\ EXA_API_KEY \in KeyValues
  /\ toolsString = <<>>
  /\ listTools = FALSE
  /\ specifiedTools = {}
  /\ API_KEY = Unset
  /\ pc = "start"
  /\ stdout = <<>>
  /\ logged = <<>>
  /\ serverTools = <<>>
  /\ registeredTools = <<>>
  /\ transport = NoTransport
  /\ usingHttp = FALSE
  /\ onerror = NoTransport
  /\ constructed = <<>>
  /\ connected = <<>>
  /\ error = NoError
  /\ raised = {}
  /\ keyChecked = FALSE
  /\ errCount = 0
  /\ exitCode = NoExit

\* ------------------------------------------------------- string helpers
\* String.prototype.split(','): the pieces between commas, empty ones kept.
RECURSIVE SplitAcc(_, _, _)
SplitAcc(s, cur, acc) ==
  IF s = <<>> THEN Append(acc, cur)
  ELSE IF Head(s) = "," THEN SplitAcc(Tail(s), <<>>, Append(acc, cur))
  ELSE SplitAcc(Tail(s), Append(cur, Head(s)), acc)

Split(s) == SplitAcc(s, <<>>, <<>>)

RECURSIVE TrimStart(_)
TrimStart(t) ==
  IF t # <<>> /\ Head(t) = " " THEN TrimStart(Tail(t)) ELSE t

RECURSIVE TrimEnd(_)
TrimEnd(t) ==
  IF t # <<>> /\ t[Len(t)] = " " THEN TrimEnd(SubSeq(t, 1, Len(t) - 1)) ELSE t

\* String.prototype.trim
Trim(t) == TrimEnd(TrimStart(t))

\* new Set(toolsString ? toolsString.split(',').map(trim) : [])
SpecifiedToolsOf(s) ==
  IF s = <<>> THEN {} ELSE {Trim(t) : t \in Range(Split(s))}

\* ------------------------------------------------------------- helpers
Log(msg) == logged' = Append(logged, msg)

Throw(e) == /\ error' = e
            /\ raised' = raised \cup {e}

\* if (!API_KEY): undefined and the empty string are both falsy.
MissingKeyUnsetOnly(k) == k = Unset
MissingKey(k) == k = Unset \/ k = ""

\* What one registry entry prints in listing mode.
ListingEntry(tool) ==
  [id |-> tool.id, name |-> tool.name,
   enabledByDefault |-> IF tool.enabled THEN "Yes" ELSE "No"]

\* The decision taken for each registry entry in setupTools.
shouldRegisterRequestedAndEnabled(toolId, tool) ==
  IF Cardinality(specifiedTools) > 0
    THEN toolId \in specifiedTools /\ tool.enabled
    ELSE tool.enabled
shouldRegisterAlwaysRequested(toolId, tool) == toolId \in specifiedTools
shouldRegister(toolId, tool) ==
  IF Cardinality(specifiedTools) > 0
    THEN toolId \in specifiedTools
    ELSE tool.enabled

\* McpServer.tool throws when the name is registered already.
ToolThrows(tools, name) == name \in Range(tools)

\* registeredTools.push(toolId)
Unshift(ids, toolId) == <<toolId>> \o ids
Push(ids, toolId) == Append(ids, toolId)

\* The forEach of setupTools from entry i on: the names registered with the
\* server, the ids pushed, and whether a registration call threw.
RECURSIVE SetupLoop(_, _, _, _)
SetupLoop(reg, i, tools, ids) ==
  IF i > Len(reg) THEN [tools |-> tools, ids |-> ids, threw |-> FALSE]
  ELSE IF shouldRegister(reg[i].id, reg[i])
    THEN IF ToolThrows(tools, reg[i].name)
           THEN [tools |-> tools, ids |-> ids, threw |-> TRUE]
           ELSE SetupLoop(reg, i + 1, Append(tools, reg[i].name),
                          Push(ids, reg[i].id))
    ELSE SetupLoop(reg, i + 1, tools, ids)

SetupOutcomeRejectEmpty(reg, tools) ==
  LET r == SetupLoop(reg, 1, tools, <<>>)
  IN IF r.ids = <<>> THEN [r EXCEPT !.threw = TRUE] ELSE r
SetupOutcome(reg, tools) == SetupLoop(reg, 1, tools, <<>>)

\* ------------------------------------------------------------- actions
\* yargs parses argv; the --tools value becomes the Set specifiedTools.
ParseArgs ==
  /\ pc = "start"
  /\ \E s \in ToolsStrings, l \in BOOLEAN :
       /\ toolsString' = s
       /\ listTools' = l
       /\ specifiedTools' = SpecifiedToolsOf(s)
  /\ pc' = "parsed"
  /\ UNCHANGED <<toolRegistry, EXA_API_KEY, API_KEY, stdout, logged, serverTools,
                 registeredTools, transport, usingHttp, onerror, constructed,
                 connected, error, raised, keyChecked, errCount, exitCode>>

\* if (argv['list-tools']) { print every entry; process.exit(0) }
ListToolsNoExit ==
  /\ pc = "parsed"
  /\ IF listTools
       THEN stdout' = [i \in 1..Len(toolRegistry) |-> ListingEntry(toolRegistry[i])]
       ELSE stdout' = stdout
  /\ pc' = "keyCheck"
  /\ UNCHANGED <<toolRegistry, EXA_API_KEY, toolsString, listTools, specifiedTools, API_KEY,
                 logged, serverTools, registeredTools, transport, usingHttp,
                 onerror, constructed, connected, error, raised, keyChecked,
                 errCount, exitCode>>
ListTools ==
  /\ pc = "parsed"
  /\ IF listTools
       THEN /\ stdout' = [i \in 1..Len(toolRegistry) |-> ListingEntry(toolRegistry[i])]
            /\ exitCode' = <<0>>
            /\ pc' = "exited"
       ELSE /\ pc' = "keyCheck"
            /\ UNCHANGED <<stdout, exitCode>>
  /\ UNCHANGED <<toolRegistry, EXA_API_KEY, toolsString, listTools, specifiedTools, API_KEY,
                 logged, serverTools, registeredTools, transport, usingHttp,
                 onerror, constructed, connected, error, raised, keyChecked,
                 errCount>>

\* const API_KEY = process.env.EXA_API_KEY; if (!API_KEY) throw ...
\* The throw is at the top level of the module: the process ends with status 1.
CheckApiKey ==
  /\ pc = "keyCheck"
  /\ API_KEY' = EXA_API_KEY
  /\ IF MissingKey(EXA_API_KEY)
       THEN /\ Throw("keyError")
            /\ exitCode' = <<1>>
            /\ pc' = "exited"
       ELSE /\ pc' = "main"
            /\ UNCHANGED <<error, raised, exitCode>>
  /\ keyChecked' = TRUE
  /\ UNCHANGED <<toolRegistry, EXA_API_KEY, toolsString, listTools, specifiedTools, stdout,
                 logged, serverTools, registeredTools, transport, usingHttp,
                 onerror, constructed, connected, errCount>>

\* new ExaServer()
Construct ==
  /\ pc = "main"
  /\ Log("Server initialized")
  /\ pc' = "run"
  /\ UNCHANGED <<toolRegistry, EXA_API_KEY, toolsString, listTools, specifiedTools, API_KEY,
                 stdout, serverTools, registeredTools, transport, usingHttp,
                 onerror, constructed, connected, error, raised, keyChecked,
                 errCount, exitCode>>

\* const registeredTools = this.setupTools(); log(`Starting ...`)
SetupTools ==
  /\ pc = "run"
  /\ LET r == SetupOutcome(toolRegistry, serverTools)
     IN /\ serverTools' = r.tools
        /\ IF r.threw
             THEN /\ Throw("toolError")
                  /\ pc' = "runCatch"
                  /\ UNCHANGED <<registeredTools, logged>>
             ELSE /\ registeredTools' = r.ids
                  /\ Log("Starting")
                  /\ pc' = "http"
                  /\ UNCHANGED <<error, raised>>
  /\ UNCHANGED <<toolRegistry, EXA_API_KEY, toolsString, listTools, specifiedTools, API_KEY,
                 stdout, transport, usingHttp, onerror, constructed, connected,
                 keyChecked, errCount, exitCode>>

HttpOutcomes == {"ok", "importThrows", "ctorThrows"}

\* The inner try: import the HTTP transport and construct it; the inner
\* catch logs the failure and leaves the fallback to come.
HttpTransportNoCatch ==
  /\ pc = "http"
  /\ \E outcome \in HttpOutcomes :
       IF outcome = "ok"
         THEN /\ transport' = "http"
              /\ usingHttp' = TRUE
              /\ constructed' = Append(constructed, "http")
              /\ Log("Using Streamable HTTP transport")
              /\ pc' = "attach"
              /\ UNCHANGED <<error, raised>>
         ELSE /\ Throw("httpError")
              /\ pc' = "runCatch"
              /\ UNCHANGED <<transport, usingHttp, constructed, logged>>
  /\ UNCHANGED <<toolRegistry, EXA_API_KEY, toolsString, listTools, specifiedTools, API_KEY,
                 stdout, serverTools, registeredTools, onerror, connected,
                 keyChecked, errCount, exitCode>>
HttpTransport ==
  /\ pc = "http"
  /\ \E outcome \in HttpOutcomes :
       IF outcome = "ok"
         THEN /\ transport' = "http"
              /\ usingHttp' = TRUE
              /\ constructed' = Append(constructed, "http")
              /\ Log("Using Streamable HTTP transport")
              /\ pc' = "attach"
              /\ UNCHANGED raised
         ELSE /\ raised' = raised \cup {"httpError"}
              /\ Log("Failed to load HTTP transport")
              /\ pc' = "fallback"
              /\ UNCHANGED <<transport, usingHttp, constructed>>
  /\ UNCHANGED <<toolRegistry, EXA_API_KEY, toolsString, listTools, specifiedTools, API_KEY,
                 stdout, serverTools, registeredTools, onerror, connected,
                 error, keyChecked, errCount, exitCode>>

\* The rest of the inner catch: import the stdio transport and construct it.
\* A failure here is inside the outer try only.
StdioFallbackSetsFlag ==
  /\ pc = "fallback"
  /\ \E ok \in BOOLEAN :
       IF ok
         THEN /\ transport' = "stdio"
              /\ usingHttp' = TRUE
              /\ constructed' = Append(constructed, "stdio")
              /\ Log("Using stdio transport")
              /\ pc' = "attach"
              /\ UNCHANGED <<error, raised>>
         ELSE /\ Throw("stdioError")
              /\ pc' = "runCatch"
              /\ UNCHANGED <<transport, usingHttp, constructed, logged>>
  /\ UNCHANGED <<toolRegistry, EXA_API_KEY, toolsString, listTools, specifiedTools, API_KEY,
                 stdout, serverTools, registeredTools, onerror, connected,
                 keyChecked, errCount, exitCode>>
StdioFallback ==
  /\ pc = "fallback"
  /\ \E ok \in BOOLEAN :
       IF ok
         THEN /\ transport' = "stdio"
              /\ constructed' = Append(constructed, "stdio")
              /\ Log("Using stdio transport")
              /\ pc' = "attach"
              /\ UNCHANGED <<error, raised>>
         ELSE /\ Throw("stdioError")
              /\ pc' = "runCatch"
              /\ UNCHANGED <<transport, constructed, logged>>
  /\ UNCHANGED <<toolRegistry, EXA_API_KEY, toolsString, listTools, specifiedTools, API_KEY,
                 stdout, serverTools, registeredTools, usingHttp, onerror,
                 connected, keyChecked, errCount, exitCode>>

\* transport.onerror = (error) => log(...)
AttachOnErrorSkipped ==
  /\ pc = "attach"
  /\ pc' = "connect"
  /\ UNCHANGED <<toolRegistry, EXA_API_KEY, toolsString, listTools, specifiedTools, API_KEY,
                 stdout, logged, serverTools, registeredTools, transport,
                 usingHttp, onerror, constructed, connected, error, raised,
                 keyChecked, errCount, exitCode>>
AttachOnError ==
  /\ pc = "attach"
  /\ onerror' = transport
  /\ pc' = "connect"
  /\ UNCHANGED <<toolRegistry, EXA_API_KEY, toolsString, listTools, specifiedTools, API_KEY,
                 stdout, logged, serverTools, registeredTools, transport,
                 usingHttp, constructed, connected, error, raised, keyChecked,
                 errCount, exitCode>>

\* await this.server.connect(transport), then the "running on" message.
Connect ==
  /\ pc = "connect"
  /\ connected' = Append(connected, transport)
  /\ \E ok \in BOOLEAN :
       IF ok
         THEN /\ Log(IF usingHttp THEN "running on HTTP" ELSE "running on stdio")
              /\ pc' = "serving"
              /\ UNCHANGED <<error, raised>>
         ELSE /\ Throw("connectError")
              /\ pc' = "runCatch"
              /\ UNCHANGED logged
  /\ UNCHANGED <<toolRegistry, EXA_API_KEY, toolsString, listTools, specifiedTools, API_KEY,
                 stdout, serverTools, registeredTools, transport, usingHttp,
                 onerror, constructed, keyChecked, errCount, exitCode>>

\* The error observer: a transport error is logged and the server goes on.
TransportError ==
  /\ pc = "serving"
  /\ onerror = transport
  /\ errCount < MaxErrors
  /\ errCount' = errCount + 1
  /\ Log("Transport error")
  /\ UNCHANGED <<toolRegistry, EXA_API_KEY, toolsString, listTools, specifiedTools, API_KEY,
                 pc, stdout, serverTools, registeredTools, transport, usingHttp,
                 onerror, constructed, connected, error, raised, keyChecked,
                 exitCode>>

\* run()'s catch: log and rethrow.
RunCatchSwallows ==
  /\ pc = "runCatch"
  /\ Log("Server initialization error")
  /\ error' = NoError
  /\ pc' = "serving"
  /\ UNCHANGED <<toolRegistry, EXA_API_KEY, toolsString, listTools, specifiedTools, API_KEY,
                 stdout, serverTools, registeredTools, transport, usingHttp,
                 onerror, constructed, connected, raised, keyChecked,
                 errCount, exitCode>>
RunCatch ==
  /\ pc = "runCatch"
  /\ Log("Server initialization error")
  /\ pc' = "mainCatch"
  /\ UNCHANGED <<toolRegistry, EXA_API_KEY, toolsString, listTools, specifiedTools, API_KEY,
                 stdout, serverTools, registeredTools, transport, usingHttp,
                 onerror, constructed, connected, error, raised, keyChecked,
                 errCount, exitCode>>

\* The catch of the main function: log and process.exit(1).
MainCatch ==
  /\ pc = "mainCatch"
  /\ Log("Fatal server error")
  /\ exitCode' = <<1>>
  /\ pc' = "exited"
  /\ UNCHANGED <<toolRegistry, EXA_API_KEY, toolsString, listTools, specifiedTools, API_KEY,
                 stdout, serverTools, registeredTools, transport, usingHttp,
                 onerror, constructed, connected, error, raised, keyChecked,
                 errCount>>

Next ==
  \/ ParseArgs
  \/ ListTools
  \/ CheckApiKey
  \/ Construct
  \/ SetupTools
  \/ HttpTransport
  \/ StdioFallback
  \/ AttachOnError
  \/ Connect
  \/ TransportError
  \/ RunCatch
  \/ MainCatch

Spec == Init /\ [][Next]_vars

\* ------------------------------------------------------------ properties
Keys == {toolRegistry[i].id : i \in 1..Len(toolRegistry)}
DefaultIds == {toolRegistry[i].id : i \in {j \in 1..Len(toolRegistry) : toolRegistry[j].enabled}}
ActiveIds == IF specifiedTools # {} THEN specifiedTools \cap Keys ELSE DefaultIds
ActiveIndexes == {i \in 1..Len(toolRegistry) : toolRegistry[i].id \in ActiveIds}
ActiveShareName ==
  \E i, j \in ActiveIndexes : i # j /\ toolRegistry[i].name = toolRegistry[j].name
RegistryIds == [i \in 1..Len(toolRegistry) |-> toolRegistry[i].id]
IsActive(id) == id \in ActiveIds
SetupRan == "Server initialized" \in Range(logged) /\ pc # "run"
SetupReturned == "Starting" \in Range(logged)
SetupThrew == "toolError" \in raised
RunErrors == {"toolError", "stdioError", "connectError"}
Selected == pc \in {"attach", "connect", "serving"} \/ connected # <<>>

\* C1: with a non-empty requested set, setupTools returns exactly the requested
\* ids that are keys of the registry, whatever the enabled flags, and a
\* requested id that is no key raises no error: setupTools throws only when
\* two requested entries of the registry share a name.
C1_RequestedIntersectRegistry ==
  specifiedTools # {} =>
    /\ SetupReturned => Range(registeredTools) = specifiedTools \cap Keys
    /\ SetupRan /\ ~SetupReturned =>
         \E i, j \in 1..Len(toolRegistry) :
            /\ i # j
            /\ toolRegistry[i].id \in specifiedTools
            /\ toolRegistry[j].id \in specifiedTools
            /\ toolRegistry[i].name = toolRegistry[j].name

C1_Witness ==
  /\ SetupReturned
  /\ \E id \in specifiedTools : id # <<>> /\ id \notin Keys
  /\ \E i, j \in 1..Len(toolRegistry) :
       /\ toolRegistry[i].id \in Range(registeredTools)
       /\ ~toolRegistry[i].enabled
       /\ toolRegistry[j].id \notin Range(registeredTools)
       /\ toolRegistry[j].enabled

\* C2: with an empty --tools value (no requested ids), setupTools returns
\* exactly the ids of the registry entries that are enabled by default.
C2_DefaultsWhenEmpty ==
  /\ pc # "start" => (specifiedTools = {} <=> toolsString = <<>>)
  /\ toolsString = <<>> /\ SetupReturned =>
       Range(registeredTools) = DefaultIds

C2_Witness ==
  /\ toolsString = <<>>
  /\ SetupReturned
  /\ registeredTools # <<>>
  /\ Keys \ DefaultIds # {}

\* C3: once the HTTP transport failed to load or construct, the failure is
\* logged, it is never the exception in flight, the HTTP transport is never
\* chosen, and the transport chosen and connected is the stdio one.
C3_HttpFailureFallsBack ==
  "httpError" \in raised =>
    /\ error # "httpError"
    /\ "Failed to load HTTP transport" \in Range(logged)
    /\ transport # "http" /\ ~usingHttp
    /\ Selected => transport = "stdio" /\ constructed = <<"stdio">>
    /\ connected # <<>> => connected = <<"stdio">>
    /\ pc \in {"runCatch", "mainCatch", "exited"} =>
         error \in {"stdioError", "connectError"}

C3_Witness ==
  /\ "httpError" \in raised
  /\ pc = "serving"
  /\ connected = <<"stdio">>
  /\ error = NoError

\* C4: in listing mode the process exits with status 0 whatever EXA_API_KEY
\* is, having printed every registry entry; the credential is never checked,
\* no tool is registered, no transport constructed, no session connected.
C4_ListingExitsZero ==
  listTools =>
    /\ pc \in {"parsed", "exited"}
    /\ exitCode \in {NoExit, <<0>>}
    /\ pc = "exited" =>
         /\ exitCode = <<0>>
         /\ Len(stdout) = Len(toolRegistry)
         /\ \A i \in 1..Len(toolRegistry) :
              /\ stdout[i].id = toolRegistry[i].id
              /\ stdout[i].name = toolRegistry[i].name
              /\ stdout[i].enabledByDefault = "Yes" <=> toolRegistry[i].enabled
    /\ ~keyChecked
    /\ raised = {}
    /\ serverTools = <<>>
    /\ constructed = <<>>
    /\ connected = <<>>

C4_Witness ==
  /\ listTools
  /\ pc = "exited"
  /\ exitCode = <<0>>
  /\ EXA_API_KEY = Unset
  /\ Len(stdout) = MaxTools

\* C5: outside listing mode, a missing EXA_API_KEY (unset or empty) ends the
\* process with an error before anything else: no tool is registered, no
\* transport is constructed, the session is never connected.
C5_MissingKeyIsFatalFirst ==
  ~listTools /\ EXA_API_KEY \in {Unset, ""} =>
    /\ pc \in {"start", "parsed", "keyCheck", "exited"}
    /\ pc = "exited" => exitCode = <<1>> /\ error = "keyError"
    /\ logged = <<>>
    /\ serverTools = <<>>
    /\ registeredTools = <<>>
    /\ constructed = <<>>
    /\ connected = <<>>

C5_Witness ==
  /\ ~listTools
  /\ EXA_API_KEY = ""
  /\ toolRegistry # <<>>
  /\ pc = "exited"
  /\ exitCode = <<1>>

\* C6: an exception raised in run() (a registration call, the stdio transport
\* after the HTTP one failed, connect) is logged by both catch blocks and the
\* process exits with status 1: from run()'s catch the only step is to the
\* main catch, from there the only step is the exit with status 1, neither
\* catch can stall, and nothing follows the exit. After a stdio failure no
\* transport is chosen, and such a run never serves.
C6_Safety ==
  /\ raised \cap RunErrors # {} =>
       /\ pc \in {"runCatch", "mainCatch", "exited"}
       /\ error \in RunErrors
       /\ exitCode \in {NoExit, <<1>>}
  /\ pc \in {"runCatch", "mainCatch"} =>
       /\ error \in RunErrors
       /\ exitCode = NoExit
       /\ ENABLED Next
  /\ error \in RunErrors /\ pc \in {"mainCatch", "exited"} =>
       "Server initialization error" \in Range(logged)
  /\ error \in RunErrors /\ pc = "exited" =>
       /\ "Fatal server error" \in Range(logged)
       /\ exitCode = <<1>>
  /\ "stdioError" \in raised =>
       /\ transport = NoTransport
       /\ constructed = <<>>
       /\ connected = <<>>

C6_RunErrorIsFatal ==
  /\ []C6_Safety
  /\ [][pc = "runCatch" => pc' = "mainCatch" /\ error' = error]_vars
  /\ [][pc = "mainCatch" => pc' = "exited" /\ exitCode' = <<1>>]_vars
  /\ [][pc # "exited"]_vars

C6_Witness ==
  /\ "stdioError" \in raised
  /\ pc = "exited"
  /\ exitCode = <<1>>

\* C7: the session is connected at most once, and to the one transport that
\* was constructed: the HTTP one iff its construction succeeded, else the
\* stdio one, which is never constructed after a successful HTTP
\* construction; usingHttp tells which.
C7_OneTransport ==
  /\ Len(connected) <= 1
  /\ "http" \in Range(constructed) => constructed = <<"http">>
  /\ connected # <<>> =>
       /\ constructed = connected
       /\ connected[1] = transport
       /\ connected[1] = "http" <=> "httpError" \notin raised
       /\ connected[1] = "stdio" <=> "httpError" \in raised
       /\ usingHttp <=> connected[1] = "http"

C7_Witness ==
  /\ pc = "serving"
  /\ connected = <<"http">>
  /\ usingHttp

\* C8: connect comes after setupTools has registered every resolved tool,
\* after a transport was chosen and after the error observer was put on that
\* transport; no tool is registered after connect.
C8_ConnectState ==
  connected # <<>> =>
    /\ SetupReturned
    /\ Range(registeredTools) = ActiveIds
    /\ Len(serverTools) = Cardinality(ActiveIds)
    /\ transport # NoTransport
    /\ onerror = transport

C8_ConnectComesLast ==
  /\ []C8_ConnectState
  /\ [][connected # <<>> => serverTools' = serverTools]_vars
  /\ [][connected' # connected => pc = "connect" /\ onerror = transport]_vars

C8_Witness ==
  /\ pc = "serving"
  /\ Len(serverTools) = 2
  /\ onerror = transport

\* C9: the list setupTools returns is the registry's id order restricted to
\* the active set, each id once, and the tools are registered with the
\* server in that same order.
C9_RegistryOrder ==
  SetupReturned =>
    /\ registeredTools = SelectSeq(RegistryIds, IsActive)
    /\ \A i, j \in 1..Len(registeredTools) :
         i # j => registeredTools[i] # registeredTools[j]
    /\ Len(serverTools) = Len(registeredTools)
    /\ \A i \in 1..Len(registeredTools) :
         \E k \in 1..Len(toolRegistry) :
            /\ toolRegistry[k].id = registeredTools[i]
            /\ toolRegistry[k].name = serverTools[i]

C9_Witness ==
  /\ SetupReturned
  /\ Len(registeredTools) >= 2
  /\ specifiedTools # {}

\* C10: setupTools throws only when two active entries share a name; an
\* empty active set is no error, and the run goes on to choose a transport
\* and connect with no tool registered.
C10_OnlyRegistrationErrorsAbort ==
  /\ SetupThrew => ActiveShareName
  /\ SetupRan /\ ~ActiveShareName => SetupReturned /\ ~SetupThrew
  /\ SetupRan /\ ActiveIds = {} =>
       /\ registeredTools = <<>>
       /\ serverTools = <<>>
       /\ raised \cap {"toolError", "keyError"} = {}

C10_Witness ==
  /\ pc = "serving"
  /\ specifiedTools # {}
  /\ toolRegistry # <<>>
  /\ serverTools = <<>>

====
